---- MODULE Spec2Model ----
(***************************************************************************)
(* Model of src/perf_counter.c: the counter handle lifecycle               *)
(* (perf_counter_open / _open_by_id / _open_by_name / _close) over a model *)
(* of the kernel's descriptor table and address space, and the one-time    *)
(* libpfm initialisation guard ensure_libpfm_initialized, interleaved at   *)
(* the granularity of its atomic accesses.                                 *)
(***************************************************************************)
EXTENDS Integers, Sequences, FiniteSets, TLC

\* ---- bounds ----
NumThreads == 2
NumFds == 2
NumAddrs == 2
MaxEvent == 1

\* ---- program constants ----
STATE_UNINITIALIZED == 0
STATE_IN_PROGRESS == 1
STATE_SUCCESS == 2
STATE_FAILED == 3
PFM_SUCCESS == 0
PageSize == 4096
MAP_FAILED == -1
NULL == 0
PERF_IOC_FLAG_GROUP == 1

Threads == 1..NumThreads
FDs == 0..(NumFds - 1)
Addrs == 1..NumAddrs
\* the (event type, event config) pairs the callers ask for: nonzero, and no
\* type equal to a config
Events == {[type |-> e, config |-> MaxEvent + e] : e \in 1..MaxEvent}
GroupFds == {-1} \cup FDs
\* values sysconf(_SC_PAGESIZE) may produce: an error, a nonsensical zero, the page size
SysconfResults == {-1, 0, PageSize}
\* values pfm_initialize / pfm_get_os_event_encoding may produce
PfmResults == {PFM_SUCCESS, -1}

VARIABLES
    h,              \* h[t]: the struct perf_counter owned by caller t
    pc,             \* pc[t]: position of caller t ("idle" or a line of open_by_name)
    expected_state, \* expected_state[t]: local of ensure_libpfm_initialized (line 117)
    result_state,   \* result_state[t]: local of ensure_libpfm_initialized (line 120)
    ensure_ret,     \* ensure_ret[t]: what ensure_libpfm_initialized returned to line 135 (FALSE
                    \* while t is not at line 135)
    returned,       \* every value ensure_libpfm_initialized has returned so far
    calls,          \* calls[t]: external calls issued so far by t's open_by_name in flight
    last,           \* the API call that returned in the step just taken, if one did:
                    \* caller, name, arguments, handle on entry, value returned (of
                    \* enable and disable), external calls issued
    current_state,  \* the static atomic_int of ensure_libpfm_initialized
    writes,         \* the values stored into current_state so far, in order
    kfd,            \* kernel descriptor table: kfd[fd] is TRUE while fd is an open counter
    kmap,           \* kernel address space: kmap[a] is the length mapped at a, 0 if none
    kcnt,           \* kernel counters: kcnt[fd] is the group leader of the counter open
                    \* at fd and whether it is counting; NoCounter if fd is free
    skipped,        \* addresses whose munmap a perf_counter_close skipped (lines 170-173)
    pfm_started,    \* number of pfm_initialize calls entered
    pfm_returns     \* return values of the pfm_initialize calls that completed

vars == <<h, pc, expected_state, result_state, ensure_ret, returned, calls, last, current_state,
          writes,
          kfd, kmap, kcnt, skipped, pfm_started, pfm_returns>>

Closed == [fd |-> -1, metadata_page |-> NULL]
NoMap == 0
NoCounter == [leader |-> -1, on |-> FALSE]

NoLast == [t |-> 0, op |-> "none", args |-> <<>>, pre |-> Closed, ret |-> 0, trace |-> <<>>]

Call(name, args, ret) == [call |-> name, a |-> args, r |-> ret]

\* number of calls of the given name in a trace
Count(trace, name) == Cardinality({i \in DOMAIN trace : trace[i].call = name})

\* ---- pure translations of the C functions ----

\* get_page_size (lines 24-33), as a function of what sysconf returned
get_page_size(sc) == IF sc < 1 THEN -1 ELSE sc

\* mmap_perf_metadata_page (lines 35-49): sc is what sysconf returns, mres what
\* mmap would return.  Yields the returned pointer and the calls issued.
mmap_perf_metadata_page(fd, sc, mres) ==
    LET page_size == get_page_size(sc)
        t1 == <<Call("sysconf", <<>>, sc)>>
    IN  IF page_size < 0
        THEN [ret |-> NULL, trace |-> t1]
        ELSE LET t2 == t1 \o <<Call("mmap", <<fd, page_size>>, mres)>>
             IN  IF mres = MAP_FAILED
                 THEN [ret |-> NULL, trace |-> t2]
                 ELSE [ret |-> mres, trace |-> t2]

\* perf_counter_open returning the descriptor it failed to map
perf_counter_open_partial(attr, g, fdres, sc, mres) ==
    LET t1 == <<Call("perf_event_open", <<attr, g>>, fdres)>>
    IN  IF fdres < 0
        THEN [handle |-> Closed, trace |-> t1]
        ELSE LET m == mmap_perf_metadata_page(fdres, sc, mres)
             IN  [handle |-> [fd |-> fdres, metadata_page |-> m.ret],
                  trace |-> t1 \o m.trace]

\* perf_counter_open forgetting close(fd) when the mapping fails
perf_counter_open_noclose(attr, g, fdres, sc, mres) ==
    LET t1 == <<Call("perf_event_open", <<attr, g>>, fdres)>>
    IN  IF fdres < 0
        THEN [handle |-> Closed, trace |-> t1]
        ELSE LET m == mmap_perf_metadata_page(fdres, sc, mres)
             IN  IF m.ret = NULL
                 THEN [handle |-> Closed, trace |-> t1 \o m.trace]
                 ELSE [handle |-> [fd |-> fdres, metadata_page |-> m.ret],
                       trace |-> t1 \o m.trace]

\* perf_counter_open without the early return on a failed syscall
perf_counter_open_nocheck(attr, g, fdres, sc, mres) ==
    LET t1 == <<Call("perf_event_open", <<attr, g>>, fdres)>>
        m == mmap_perf_metadata_page(fdres, sc, mres)
    IN  IF m.ret = NULL
        THEN [handle |-> Closed,
              trace |-> t1 \o m.trace \o <<Call("close", <<fdres>>, 0)>>]
        ELSE [handle |-> [fd |-> fdres, metadata_page |-> m.ret],
              trace |-> t1 \o m.trace]

\* perf_counter_open (lines 51-69): fdres is what the perf_event_open syscall returns
perf_counter_open(attr, g, fdres, sc, mres) ==
    LET t1 == <<Call("perf_event_open", <<attr, g>>, fdres)>>
    IN  IF fdres < 0
        THEN [handle |-> Closed, trace |-> t1]
        ELSE LET m == mmap_perf_metadata_page(fdres, sc, mres)
             IN  IF m.ret = NULL
                 THEN [handle |-> Closed,
                       trace |-> t1 \o m.trace \o <<Call("close", <<fdres>>, 0)>>]
                 ELSE [handle |-> [fd |-> fdres, metadata_page |-> m.ret],
                       trace |-> t1 \o m.trace]

ZeroAttr == [type |-> 0, config |-> 0, pinned |-> 0, disabled |-> 0,
             exclude_kernel |-> 0, exclude_hv |-> 0]

\* perf_counter_open_by_id pinning every counter, grouped or not
attr_by_id_pinned(event_type, event_config, g) ==
    [ZeroAttr EXCEPT !.type = event_type, !.config = event_config,
                     !.pinned = 1,
                     !.disabled = 1, !.exclude_kernel = 1, !.exclude_hv = 1]

\* the attribute built by perf_counter_open_by_id (lines 74-87)
attr_by_id(event_type, event_config, g) ==
    [ZeroAttr EXCEPT !.type = event_type, !.config = event_config,
                     !.pinned = IF g = -1 THEN 1 ELSE 0,
                     !.disabled = 1, !.exclude_kernel = 1, !.exclude_hv = 1]

\* perf_counter_open_by_id (lines 71-90)
perf_counter_open_by_id(event_type, event_config, g, fdres, sc, mres) ==
    perf_counter_open(attr_by_id(event_type, event_config, g), g, fdres, sc, mres)

\* perf_counter_close releasing the descriptor before the mapping
perf_counter_close_swapped(p, sc) ==
    LET t1 == IF p.metadata_page # NULL
              THEN <<Call("sysconf", <<>>, sc)>> \o
                   (IF get_page_size(sc) > 0
                    THEN <<Call("munmap", <<p.metadata_page, get_page_size(sc)>>, 0)>>
                    ELSE <<>>)
              ELSE <<>>
        t2 == IF p.fd # -1 THEN <<Call("close", <<p.fd>>, 0)>> ELSE <<>>
    IN  [handle |-> [fd |-> -1, metadata_page |-> NULL], trace |-> t2 \o t1]

\* perf_counter_close without the fd != -1 test
perf_counter_close_unguarded(p, sc) ==
    LET t1 == IF p.metadata_page # NULL
              THEN <<Call("sysconf", <<>>, sc)>> \o
                   (IF get_page_size(sc) > 0
                    THEN <<Call("munmap", <<p.metadata_page, get_page_size(sc)>>, 0)>>
                    ELSE <<>>)
              ELSE <<>>
    IN  [handle |-> [fd |-> -1, metadata_page |-> NULL],
         trace |-> t1 \o <<Call("close", <<p.fd>>, 0)>>]

\* perf_counter_close that unmaps but never closes the descriptor
perf_counter_close_nofd(p, sc) ==
    LET t1 == IF p.metadata_page # NULL
              THEN <<Call("sysconf", <<>>, sc)>> \o
                   (IF get_page_size(sc) > 0
                    THEN <<Call("munmap", <<p.metadata_page, get_page_size(sc)>>, 0)>>
                    ELSE <<>>)
              ELSE <<>>
    IN  [handle |-> [fd |-> -1, metadata_page |-> NULL], trace |-> t1]

\* perf_counter_close giving up when the page size is unknown
perf_counter_close_bail(p, sc) ==
    IF p.metadata_page # NULL /\ get_page_size(sc) <= 0
    THEN [handle |-> p, trace |-> <<Call("sysconf", <<>>, sc)>>]
    ELSE [handle |-> [fd |-> -1, metadata_page |-> NULL],
          trace |-> (IF p.metadata_page # NULL
                     THEN <<Call("sysconf", <<>>, sc),
                            Call("munmap", <<p.metadata_page, get_page_size(sc)>>, 0)>>
                     ELSE <<>>)
                    \o (IF p.fd # -1 THEN <<Call("close", <<p.fd>>, 0)>> ELSE <<>>)]

\* perf_counter_close unmapping two pages
perf_counter_close_two_pages(p, sc) ==
    LET t1 == IF p.metadata_page # NULL
              THEN <<Call("sysconf", <<>>, sc)>> \o
                   (IF get_page_size(sc) > 0
                    THEN <<Call("munmap", <<p.metadata_page, 2 * get_page_size(sc)>>, 0)>>
                    ELSE <<>>)
              ELSE <<>>
        t2 == IF p.fd # -1 THEN <<Call("close", <<p.fd>>, 0)>> ELSE <<>>
    IN  [handle |-> [fd |-> -1, metadata_page |-> NULL], trace |-> t1 \o t2]

\* perf_counter_close (lines 165-181): sc is what sysconf returns if it is asked
perf_counter_close(p, sc) ==
    LET t1 == IF p.metadata_page # NULL
              THEN <<Call("sysconf", <<>>, sc)>> \o
                   (IF get_page_size(sc) > 0
                    THEN <<Call("munmap", <<p.metadata_page, get_page_size(sc)>>, 0)>>
                    ELSE <<>>)
              ELSE <<>>
        t2 == IF p.fd # -1 THEN <<Call("close", <<p.fd>>, 0)>> ELSE <<>>
    IN  [handle |-> [fd |-> -1, metadata_page |-> NULL], trace |-> t1 \o t2]

\* ---- the kernel's side of the calls ----

\* effect of one call on the descriptor table
KfdStep(k, c) ==
    IF c.call = "perf_event_open" /\ c.r >= 0 THEN [k EXCEPT ![c.r] = TRUE]
    ELSE IF c.call = "close" /\ c.a[1] \in DOMAIN k THEN [k EXCEPT ![c.a[1]] = FALSE]
    ELSE k

\* effect of one call on the address space: munmap removes a mapping only when
\* the extent it is given covers the mapping
KmapStep(m, c) ==
    IF c.call = "mmap" /\ c.r # MAP_FAILED
        THEN [m EXCEPT ![c.r] = c.a[2]]
    ELSE IF c.call = "munmap" /\ c.a[1] \in DOMAIN m /\ c.a[2] >= m[c.a[1]]
        THEN [m EXCEPT ![c.a[1]] = NoMap]
    ELSE m

\* effect of one call on the counters: a new counter joins the group of the
\* leader it names and counts unless created disabled; closing a leader leaves
\* each of its siblings a group of its own; an enable or disable request acts on
\* the whole group of the counter when it carries PERF_IOC_FLAG_GROUP, and on
\* that counter alone otherwise
KcntStep(k, c) ==
    IF c.call = "perf_event_open" /\ c.r >= 0
        THEN [k EXCEPT ![c.r] = [leader |-> IF c.a[2] = -1 THEN c.r ELSE c.a[2],
                                 on |-> c.a[1].disabled = 0]]
    ELSE IF c.call = "close" /\ c.a[1] \in DOMAIN k
        THEN [f \in DOMAIN k |->
                IF f = c.a[1] THEN NoCounter
                ELSE IF k[f].leader = c.a[1] THEN [k[f] EXCEPT !.leader = f]
                ELSE k[f]]
    ELSE IF c.call = "ioctl" /\ c.r = 0
        THEN [f \in DOMAIN k |->
                IF \/ f = c.a[1]
                   \/ c.a[3] = PERF_IOC_FLAG_GROUP /\ k[f].leader = k[c.a[1]].leader
                THEN [k[f] EXCEPT !.on = (c.a[2] = "ENABLE")]
                ELSE k[f]]
    ELSE k

RECURSIVE KcntApply(_, _)
KcntApply(k, trace) ==
    IF trace = <<>> THEN k
    ELSE KcntApply(KcntStep(k, Head(trace)), Tail(trace))

RECURSIVE KfdApply(_, _)
KfdApply(k, trace) ==
    IF trace = <<>> THEN k
    ELSE KfdApply(KfdStep(k, Head(trace)), Tail(trace))

RECURSIVE KmapApply(_, _)
KmapApply(m, trace) ==
    IF trace = <<>> THEN m
    ELSE KmapApply(KmapStep(m, Head(trace)), Tail(trace))

\* Descriptors and addresses are only ever compared for equality with each other
\* and tested against the sentinels (fd < 0, fd != -1, NULL, MAP_FAILED), so which
\* free one the kernel hands out is immaterial: it hands out the lowest.

\* results the perf_event_open syscall can produce: failure always, and the
\* lowest free descriptor unless the group descriptor is not that of an open
\* group leader or asks for a pinned sibling
OpenResults(attr, g) ==
    {-1} \cup (IF g = -1 \/ (g \in FDs /\ kfd[g] /\ kcnt[g].leader = g /\ attr.pinned = 0)
               THEN {f \in FDs : ~kfd[f] /\ \A f2 \in FDs : f2 < f => kfd[f2]}
               ELSE {})

\* results mmap can produce: failure always, and the lowest free non-null address
MmapResults ==
    {MAP_FAILED} \cup
    {a \in Addrs : kmap[a] = NoMap /\ \A a2 \in Addrs : a2 < a => kmap[a2] # NoMap}

\* ---- initial state ----
Init ==
    /\ h = [t \in Threads |-> Closed]
    /\ pc = [t \in Threads |-> "idle"]
    /\ expected_state = [t \in Threads |-> STATE_UNINITIALIZED]
    /\ returned = {}
    /\ result_state = [t \in Threads |-> STATE_UNINITIALIZED]
    /\ ensure_ret = [t \in Threads |-> FALSE]
    /\ calls = [t \in Threads |-> <<>>]
    /\ last = NoLast
    /\ current_state = STATE_UNINITIALIZED
    /\ writes = <<>>
    /\ kfd = [f \in FDs |-> FALSE]
    /\ kmap = [a \in Addrs |-> NoMap]
    /\ kcnt = [f \in FDs |-> NoCounter]
    /\ skipped = {}
    /\ pfm_started = 0
    /\ pfm_returns = <<>>

\* ---- handle operations (each a single synchronous call) ----

\* the common tail of an API call of t, made with arguments args, that returns
\* r (handle, trace)
Finish(t, name, args, r) ==
    /\ h' = [h EXCEPT ![t] = r.handle]
    /\ last' = [t |-> t, op |-> name, args |-> args, pre |-> h[t],
                ret |-> IF "ret" \in DOMAIN r THEN r.ret ELSE 0,
                trace |-> calls[t] \o r.trace]
    /\ calls' = [calls EXCEPT ![t] = <<>>]
    /\ kfd' = KfdApply(kfd, r.trace)
    /\ kmap' = KmapApply(kmap, r.trace)
    /\ kcnt' = KcntApply(kcnt, r.trace)
    /\ skipped' = skipped \cup
            (IF name = "close" /\ h[t].metadata_page # NULL /\ Count(r.trace, "munmap") = 0
             THEN {h[t].metadata_page} ELSE {})

\* what sysconf and mmap return matters only when they are reached
SysconfIf(reached) == IF reached THEN SysconfResults ELSE {-1}
MmapIf(reached) == IF reached THEN MmapResults ELSE {MAP_FAILED}

\* t = perf_counter_open(&attr, g) into a handle variable that holds no counter;
\* the caller's attribute names an event and asks for a counter created disabled
Open(t) ==
    /\ pc[t] = "idle" /\ h[t] = Closed
    /\ \E e \in Events, g \in GroupFds :
       LET attr == [ZeroAttr EXCEPT !.type = e.type, !.config = e.config,
                                    !.disabled = 1] IN
       \E fdres \in OpenResults(attr, g) : \E sc \in SysconfIf(fdres >= 0) :
       \E mres \in MmapIf(fdres >= 0 /\ get_page_size(sc) >= 0) :
          Finish(t, "open", <<attr, g>>, perf_counter_open(attr, g, fdres, sc, mres))
    /\ UNCHANGED <<pc, expected_state, result_state, ensure_ret, returned,
                   current_state, writes, pfm_started, pfm_returns>>

OpenById(t) ==
    /\ pc[t] = "idle" /\ h[t] = Closed
    /\ \E e \in Events, g \in GroupFds :
       \E fdres \in OpenResults(attr_by_id(e.type, e.config, g), g) :
       \E sc \in SysconfIf(fdres >= 0) :
       \E mres \in MmapIf(fdres >= 0 /\ get_page_size(sc) >= 0) :
          Finish(t, "open_by_id", <<e.type, e.config, g>>,
                 perf_counter_open_by_id(e.type, e.config, g, fdres, sc, mres))
    /\ UNCHANGED <<pc, expected_state, result_state, ensure_ret, returned,
                   current_state, writes, pfm_started, pfm_returns>>

Close(t) ==
    /\ pc[t] = "idle"
    /\ \E sc \in SysconfIf(h[t].metadata_page # NULL) :
          Finish(t, "close", <<>>, perf_counter_close(h[t], sc))
    /\ UNCHANGED <<pc, expected_state, result_state, ensure_ret, returned,
                   current_state, writes, pfm_started, pfm_returns>>

\* perf_counter_enable asking for this counter only
perf_counter_enable_single(p, res) ==
    [handle |-> p, ret |-> res,
     trace |-> <<Call("ioctl", <<p.fd, "ENABLE", 0>>, res)>>]

\* perf_counter_enable (lines 183-186): res is what ioctl returns
perf_counter_enable(p, res) ==
    [handle |-> p, ret |-> res,
     trace |-> <<Call("ioctl", <<p.fd, "ENABLE", PERF_IOC_FLAG_GROUP>>, res)>>]

\* perf_counter_disable reporting success whatever the kernel said
perf_counter_disable_swallow(p, res) ==
    [handle |-> p, ret |-> 0,
     trace |-> <<Call("ioctl", <<p.fd, "DISABLE", PERF_IOC_FLAG_GROUP>>, res)>>]

\* perf_counter_disable (lines 188-191): res is what ioctl returns
perf_counter_disable(p, res) ==
    [handle |-> p, ret |-> res,
     trace |-> <<Call("ioctl", <<p.fd, "DISABLE", PERF_IOC_FLAG_GROUP>>, res)>>]

\* results the ioctl can produce: failure always, success on an open counter
IoctlResults(fd) == {-1} \cup (IF fd \in FDs /\ kfd[fd] THEN {0} ELSE {})

Enable(t) ==
    /\ pc[t] = "idle"
    /\ \E res \in IoctlResults(h[t].fd) :
          Finish(t, "enable", <<>>, perf_counter_enable(h[t], res))
    /\ UNCHANGED <<pc, expected_state, result_state, ensure_ret, returned,
                   current_state, writes, pfm_started, pfm_returns>>

Disable(t) ==
    /\ pc[t] = "idle"
    /\ \E res \in IoctlResults(h[t].fd) :
          Finish(t, "disable", <<>>, perf_counter_disable(h[t], res))
    /\ UNCHANGED <<pc, expected_state, result_state, ensure_ret, returned,
                   current_state, writes, pfm_started, pfm_returns>>

\* ---- perf_counter_open_by_name, one action per atomic access ----

\* a compare-exchange that also claims an initialisation already claimed
compare_exchange_reclaim(cur, expected, desired) ==
    IF cur \in {expected, desired} THEN [ok |-> TRUE, new |-> desired, expected |-> expected]
    ELSE [ok |-> FALSE, new |-> cur, expected |-> cur]

\* a compare-exchange that stores without comparing
compare_exchange_blind(cur, expected, desired) ==
    [ok |-> TRUE, new |-> desired, expected |-> expected]

\* atomic_compare_exchange_strong(&current_state, &expected, desired) (line 118):
\* on failure the value seen is written back to expected
compare_exchange(cur, expected, desired) ==
    IF cur = expected THEN [ok |-> TRUE, new |-> desired, expected |-> expected]
    ELSE [ok |-> FALSE, new |-> cur, expected |-> cur]

\* a wait loop that only a successful initialisation ends
wait_condition_until_success(cur) == cur # STATE_SUCCESS

\* a loser that does not wait at all
wait_condition_never(cur) == FALSE

\* a wait loop that tests for the wrong state
wait_condition_wrong(cur) == cur = STATE_UNINITIALIZED

\* the condition of the wait loop (line 126), on the value its atomic_load reads
wait_condition(cur) == cur = STATE_IN_PROGRESS

\* the value returned after the wait loop (line 130), on the value its atomic_load reads
final_result(cur) == cur = STATE_SUCCESS

\* result_state computed from pfm_initialize's return value (line 120)
result_of(ret) == IF ret = PFM_SUCCESS THEN STATE_SUCCESS ELSE STATE_FAILED

\* perf_counter_open_by_name applying all of perf_counter_open_by_id's policy bits
attr_by_name_as_by_id(enc, g) ==
    [enc EXCEPT !.pinned = IF g = -1 THEN 1 ELSE 0, !.disabled = 1,
                !.exclude_kernel = 1, !.exclude_hv = 1]

\* the attribute perf_counter_open_by_name derives from the translator's output (lines 155-159)
attr_by_name(enc, g) ==
    [enc EXCEPT !.pinned = IF g = -1 THEN 1 ELSE @, !.disabled = 1]

\* attributes pfm_get_os_event_encoding may write into the zeroed attr: an
\* event, from a string without modifiers (policy bits left clear) or from one
\* whose modifiers set the privilege-level exclusions and the pinned bit
EncodedAttrs ==
    {[ZeroAttr EXCEPT !.type = e.type, !.config = e.config,
                      !.exclude_kernel = m, !.exclude_hv = m, !.pinned = m] :
        e \in Events, m \in {0, 1}}

\* ensure_libpfm_initialized returns b to its call site at line 135; its locals die
EnsureReturns(t, b) ==
    /\ ensure_ret' = [ensure_ret EXCEPT ![t] = b]
    /\ returned' = returned \cup {b}
    /\ pc' = [pc EXCEPT ![t] = "L135"]
    /\ result_state' = [result_state EXCEPT ![t] = STATE_UNINITIALIZED]

\* t = perf_counter_open_by_name(name, g) is entered, into a handle variable that
\* holds no counter
CallOpenByName(t) ==
    /\ pc[t] = "idle" /\ h[t] = Closed
    /\ last' = NoLast
    /\ pc' = [pc EXCEPT ![t] = "L106"]
    /\ UNCHANGED <<h, expected_state, result_state, ensure_ret, returned, calls,
                   current_state, writes, kfd, kmap, kcnt, skipped, pfm_started, pfm_returns>>

\* lines 106-114: the first atomic_load and the two early returns
L106(t) ==
    /\ pc[t] = "L106"
    /\ last' = NoLast
    /\ IF current_state = STATE_SUCCESS THEN EnsureReturns(t, TRUE)
       ELSE IF current_state = STATE_FAILED THEN EnsureReturns(t, FALSE)
       ELSE /\ pc' = [pc EXCEPT ![t] = "L118"]
            /\ UNCHANGED <<ensure_ret, returned, result_state>>
    /\ UNCHANGED <<h, expected_state, calls, current_state, writes, kfd, kmap, kcnt, skipped,
                   pfm_started, pfm_returns>>

\* lines 117-118: the compare-exchange; the winner goes on to initialise
L118(t) ==
    /\ pc[t] = "L118"
    /\ last' = NoLast
    /\ LET cas == compare_exchange(current_state, STATE_UNINITIALIZED, STATE_IN_PROGRESS)
       IN  /\ current_state' = cas.new
           /\ writes' = IF cas.ok THEN Append(writes, cas.new) ELSE writes
           /\ expected_state' = [expected_state EXCEPT ![t] = cas.expected]
           /\ pc' = [pc EXCEPT ![t] = IF cas.ok THEN "L120" ELSE "L126"]
    /\ UNCHANGED <<h, result_state, ensure_ret, returned, calls, kfd, kmap, kcnt, skipped,
                   pfm_started, pfm_returns>>

\* line 120: pfm_initialize is entered
L120(t) ==
    /\ pc[t] = "L120"
    /\ last' = NoLast
    /\ pfm_started' = pfm_started + 1
    /\ pc' = [pc EXCEPT ![t] = "L120r"]
    /\ UNCHANGED <<h, expected_state, result_state, ensure_ret, returned, calls,
                   current_state, writes, kfd, kmap, kcnt, skipped, pfm_returns>>

\* line 120: pfm_initialize returns
L120r(t) ==
    /\ pc[t] = "L120r"
    /\ last' = NoLast
    /\ \E ret \in PfmResults :
          /\ pfm_returns' = Append(pfm_returns, ret)
          /\ result_state' = [result_state EXCEPT ![t] = result_of(ret)]
          /\ calls' = [calls EXCEPT ![t] = Append(@, Call("pfm_initialize", <<>>, ret))]
    /\ pc' = [pc EXCEPT ![t] = "L121"]
    /\ UNCHANGED <<h, expected_state, ensure_ret, returned, current_state, writes, kfd, kmap, kcnt, skipped,
                   pfm_started>>

\* lines 121-122: the winner publishes the terminal state and returns
L121(t) ==
    /\ pc[t] = "L121"
    /\ last' = NoLast
    /\ current_state' = result_state[t]
    /\ writes' = Append(writes, result_state[t])
    /\ EnsureReturns(t, result_state[t] = STATE_SUCCESS)
    /\ UNCHANGED <<h, expected_state, calls, kfd, kmap, kcnt, skipped, pfm_started, pfm_returns>>

\* line 126: one iteration of the wait loop
L126(t) ==
    /\ pc[t] = "L126"
    /\ last' = NoLast
    /\ pc' = [pc EXCEPT ![t] = IF wait_condition(current_state) THEN "L126" ELSE "L130"]
    /\ UNCHANGED <<h, expected_state, result_state, ensure_ret, returned, calls,
                   current_state, writes, kfd, kmap, kcnt, skipped, pfm_started, pfm_returns>>

\* line 130: the final atomic_load and return
L130(t) ==
    /\ pc[t] = "L130"
    /\ last' = NoLast
    /\ EnsureReturns(t, final_result(current_state))
    /\ UNCHANGED <<h, expected_state, calls, current_state, writes, kfd, kmap, kcnt, skipped,
                   pfm_started, pfm_returns>>

\* perf_counter_open_by_name going on to open whatever the translator returned
perf_counter_open_by_name_tail_unchecked(ret, enc, g, fdres, sc, mres) ==
    LET t1 == <<Call("pfm_get_os_event_encoding", <<enc>>, ret)>>
        r == perf_counter_open(attr_by_name(enc, g), g, fdres, sc, mres)
    IN  [handle |-> r.handle, trace |-> t1 \o r.trace]

\* lines 140-161: translate the name, then perf_counter_open
perf_counter_open_by_name_tail(ret, enc, g, fdres, sc, mres) ==
    LET t1 == <<Call("pfm_get_os_event_encoding", <<enc>>, ret)>>
    IN  IF ret # PFM_SUCCESS
        THEN [handle |-> Closed, trace |-> t1]
        ELSE LET r == perf_counter_open(attr_by_name(enc, g), g, fdres, sc, mres)
             IN  [handle |-> r.handle, trace |-> t1 \o r.trace]

\* perf_counter_open_by_name ignoring what ensure_libpfm_initialized returned
perf_counter_open_by_name_unchecked(ok, ret, enc, g, fdres, sc, mres) ==
    perf_counter_open_by_name_tail(ret, enc, g, fdres, sc, mres)

\* lines 135-161: the rest of perf_counter_open_by_name once ensure_libpfm_initialized
\* has returned ok.  The group_fd argument g is not read before line 155, so it
\* is drawn here.
perf_counter_open_by_name_rest(ok, ret, enc, g, fdres, sc, mres) ==
    IF ~ok THEN [handle |-> Closed, trace |-> <<>>]
    ELSE perf_counter_open_by_name_tail(ret, enc, g, fdres, sc, mres)

L135(t) ==
    /\ pc[t] = "L135"
    /\ \E g \in IF ensure_ret[t] THEN GroupFds ELSE {-1} :
       \E ret \in IF ensure_ret[t] THEN PfmResults ELSE {-1} :
       \E enc \in IF ensure_ret[t] /\ ret = PFM_SUCCESS THEN EncodedAttrs ELSE {ZeroAttr} :
       \E fdres \in IF ensure_ret[t] /\ ret = PFM_SUCCESS THEN OpenResults(attr_by_name(enc, g), g) ELSE {-1} :
       \E sc \in SysconfIf(fdres >= 0) :
       \E mres \in MmapIf(fdres >= 0 /\ get_page_size(sc) >= 0) :
          Finish(t, "open_by_name", <<g>>,
                 perf_counter_open_by_name_rest(ensure_ret[t], ret, enc, g, fdres, sc, mres))
    /\ pc' = [pc EXCEPT ![t] = "idle"]
    /\ ensure_ret' = [ensure_ret EXCEPT ![t] = FALSE]
    /\ expected_state' = [expected_state EXCEPT ![t] = STATE_UNINITIALIZED]
    /\ UNCHANGED <<result_state, returned, current_state, writes, pfm_started, pfm_returns>>

\* the callers use the library one call at a time; the compare-exchange then
\* never fails, and the wait loop (lines 126-130) is not reached
Sequential(t) == \A u \in Threads \ {t} : pc[u] = "idle"

Next ==
    \E t \in Threads :
        \/ Sequential(t) /\ Open(t)
        \/ Sequential(t) /\ OpenById(t)
        \/ Sequential(t) /\ Close(t)
        \/ Sequential(t) /\ CallOpenByName(t)
        \/ Sequential(t) /\ L106(t)
        \/ Sequential(t) /\ L118(t)
        \/ Sequential(t) /\ L120(t)
        \/ Sequential(t) /\ L120r(t)
        \/ Sequential(t) /\ L121(t)
        \/ Sequential(t) /\ L135(t)

Spec == Init /\ [][Next]_vars

\* the callers open counters by attribute or id, alone or into groups, and
\* start and stop them
NextCtl ==
    \E t \in Threads : Open(t) \/ OpenById(t) \/ Close(t) \/ Enable(t) \/ Disable(t)

SpecCtl == Init /\ [][NextCtl]_vars

\* the callers race in perf_counter_open_by_name and keep what they open
NextInit ==
    \E t \in Threads :
        \/ CallOpenByName(t) \/ L106(t) \/ L118(t) \/ L120(t) \/ L120r(t) \/ L121(t)
        \/ L126(t) \/ L130(t) \/ L135(t)

SpecInit == Init /\ [][NextInit]_vars

\* a step of caller t inside ensure_libpfm_initialized
EnsureStep(t) ==
    L106(t) \/ L118(t) \/ L120(t) \/ L120r(t) \/ L121(t) \/ L126(t) \/ L130(t)

\* the racing callers under a fair scheduler, with a pfm_initialize that returns:
\* a caller inside ensure_libpfm_initialized that can take a step that changes
\* something eventually takes a step
SpecInitFair == SpecInit /\ \A t \in Threads : WF_vars(EnsureStep(t))

\* the callers race in perf_counter_open_by_name
NextMT ==
    \E t \in Threads :
        \/ CallOpenByName(t) \/ L106(t) \/ L118(t) \/ L120(t) \/ L120r(t) \/ L121(t)
        \/ L126(t) \/ L130(t) \/ L135(t) \/ Close(t)

SpecMT == Init /\ [][NextMT]_vars
\* ---- properties of the handle lifecycle (checked under Spec) ----

OpenOps == {"open", "open_by_id", "open_by_name"}

\* the calls of the given name in a trace, in order
RECURSIVE Select(_, _)
Select(trace, name) ==
    IF trace = <<>> THEN <<>>
    ELSE (IF Head(trace).call = name THEN <<Head(trace)>> ELSE <<>>)
         \o Select(Tail(trace), name)

\* the open call that just returned obtained a descriptor from the kernel
GotDescriptor ==
    /\ last.op \in OpenOps
    /\ Count(last.trace, "perf_event_open") = 1
    /\ Select(last.trace, "perf_event_open")[1].r >= 0

\* ... and then failed to map the metadata page
MappingFailed ==
    /\ GotDescriptor
    /\ \/ Count(last.trace, "mmap") = 0
       \/ Select(last.trace, "mmap")[1].r = MAP_FAILED

\* the open call that just returned had its kernel open request refused
KernelOpenFailed ==
    /\ last.op \in OpenOps
    /\ Count(last.trace, "perf_event_open") >= 1
    /\ Select(last.trace, "perf_event_open")[1].r < 0

\* C1: every handle returned by an open operation, and every handle after close
\* returns, has a mapping if and only if it has a valid descriptor; an open
\* handle's descriptor and mapping are live in the kernel, and a handle is
\* closed after perf_counter_close.
C1_AllOrNothing ==
    /\ \A t \in Threads :
          /\ (h[t].metadata_page # NULL) <=> (h[t].fd >= 0)
          /\ h[t].fd < 0 => h[t] = Closed
          /\ h[t].fd >= 0 => kfd[h[t].fd] /\ kmap[h[t].metadata_page] # NoMap
    /\ last.op = "close" => h[last.t] = Closed

\* C1 witness: an open call returned after its mmap failed
C1_Witness == MappingFailed /\ Count(last.trace, "mmap") = 1 /\ h[last.t] = Closed

\* C2: when the kernel open succeeds and the mapping fails, the descriptor just
\* obtained is closed exactly once, as the last call before returning, the
\* handle returned is closed, and the descriptor is no longer open in the kernel.
C2_RollbackOnMapFailure ==
    MappingFailed =>
        LET fd == Select(last.trace, "perf_event_open")[1].r IN
        /\ Count(last.trace, "close") = 1
        /\ last.trace[Len(last.trace)] = Call("close", <<fd>>, 0)
        /\ h[last.t] = Closed
        /\ ~kfd[fd]

\* C2 witness: the page-size query failed after a successful kernel open
C2_Witness ==
    /\ MappingFailed
    /\ Count(last.trace, "mmap") = 0
    /\ Count(last.trace, "close") = 1

\* C3: when the kernel open request fails, the open operation returns the closed
\* handle having issued that one syscall and no page-size query, mmap, munmap
\* or close.
C3_KernelOpenFailure ==
    KernelOpenFailed =>
        /\ h[last.t] = Closed
        /\ Count(last.trace, "perf_event_open") = 1
        /\ Count(last.trace, "sysconf") = 0
        /\ Count(last.trace, "mmap") = 0
        /\ Count(last.trace, "munmap") = 0
        /\ Count(last.trace, "close") = 0

\* C3 witness: an open_by_id call whose syscall was refused
C3_Witness == KernelOpenFailed /\ last.op = "open_by_id"

\* a perf_counter_close call on a fully open handle just returned
ClosedOpenHandle ==
    /\ last.op = "close"
    /\ last.pre.fd >= 0
    /\ last.pre.metadata_page # NULL

\* ... and its page-size query succeeded
PageSizeKnown ==
    /\ Count(last.trace, "sysconf") = 1
    /\ Select(last.trace, "sysconf")[1].r >= 1

\* C4: closing a fully open handle, the page-size query succeeding, issues the
\* query, then one munmap of the handle's mapping, then one close of the
\* handle's descriptor and nothing else; the handle is left closed and both
\* resources are released in the kernel.
C4_CloseOpenHandle ==
    (ClosedOpenHandle /\ PageSizeKnown) =>
        /\ Len(last.trace) = 3
        /\ last.trace[2] = Call("munmap", <<last.pre.metadata_page, PageSize>>, 0)
        /\ last.trace[3] = Call("close", <<last.pre.fd>>, 0)
        /\ h[last.t] = Closed
        /\ ~kfd[last.pre.fd]
        /\ kmap[last.pre.metadata_page] = NoMap

\* C4 witness: such a close returned
C4_Witness == ClosedOpenHandle /\ PageSizeKnown /\ Count(last.trace, "munmap") = 1

\* C5: perf_counter_close on a closed handle issues no call at all and changes
\* neither the handle nor the kernel's descriptors and mappings.
C5_CloseClosedIsNoOp ==
    [][\A t \in Threads :
          (last'.op = "close" /\ last'.t = t /\ h[t] = Closed) =>
              /\ last'.trace = <<>>
              /\ h'[t] = h[t]
              /\ kfd' = kfd
              /\ kmap' = kmap]_vars

\* C5 witness: a close of an already-closed handle returned, issuing nothing,
\* while another handle's descriptor is open in the kernel
C5_Witness ==
    /\ last.op = "close"
    /\ last.pre = Closed
    /\ last.trace = <<>>
    /\ \E f \in FDs : kfd[f]

AllClosed == \A t \in Threads : pc[t] = "idle" /\ h[t] = Closed

Mapped == {a \in Addrs : kmap[a] # NoMap}

\* C6 as stated: once every handle is closed the kernel holds neither a
\* descriptor nor a mapping acquired by the library.
C6_Original == AllClosed => (\A f \in FDs : ~kfd[f]) /\ Mapped = {}

\* C6 amended: once every handle is closed the kernel holds no descriptor
\* acquired by the library, and the mappings it still holds are exactly those
\* whose munmap a close skipped because its page-size query failed.
C6_NoLeakButSkipped == AllClosed => (\A f \in FDs : ~kfd[f]) /\ Mapped = skipped

\* C6 witness: every handle is closed after an open handle was closed with a
\* working page-size query
C6_Witness == AllClosed /\ ClosedOpenHandle /\ PageSizeKnown /\ Mapped = {}

\* ---- properties of the one-time initialisation (checked under SpecMT) ----

Terminal == {STATE_SUCCESS, STATE_FAILED}

\* C7: pfm_initialize is entered at most once, exactly once as soon as any
\* caller of ensure_libpfm_initialized has returned, and only by the caller that
\* won the compare-exchange: a caller that lost it, and a caller whose first
\* load saw a terminal state, have issued no pfm_initialize.
C7_InitCalledOnce ==
    /\ pfm_started <= 1
    /\ returned # {} => pfm_started = 1
    /\ \A t \in Threads :
          /\ pc[t] \in {"L126", "L130"} => calls[t] = <<>>
          /\ calls[t] # <<>> => /\ Count(calls[t], "pfm_initialize") = Len(calls[t])
                                /\ Len(calls[t]) = 1
                                /\ expected_state[t] = STATE_UNINITIALIZED
    /\ Cardinality({t \in Threads : calls[t] # <<>> \/ pc[t] \in {"L120", "L120r"}}) <= 1

\* C7 witness: the winner and a caller that lost the compare-exchange have both returned
C7_Witness ==
    \E t, u \in Threads :
        /\ pc[t] = "L135" /\ calls[t] # <<>>
        /\ pc[u] = "L135" /\ expected_state[u] = STATE_IN_PROGRESS

\* C8: all values returned by ensure_libpfm_initialized are equal, and equal
\* to whether the one pfm_initialize call returned PFM_SUCCESS.
C8_SameOutcome ==
    /\ Cardinality(returned) <= 1
    /\ \A b \in returned :
          Len(pfm_returns) >= 1 => (b <=> (pfm_returns[1] = PFM_SUCCESS))
    /\ \A t \in Threads :
          (pc[t] = "L135" /\ Len(pfm_returns) >= 1) =>
              (ensure_ret[t] <=> (pfm_returns[1] = PFM_SUCCESS))

\* C8 witness: a caller has returned true after its compare-exchange failed on
\* a terminal state the winner had already published
C8_Witness ==
    \E t \in Threads :
        /\ pc[t] = "L135"
        /\ expected_state[t] \in Terminal
        /\ ensure_ret[t] = TRUE

\* C9: whenever a caller has returned from ensure_libpfm_initialized, or has read
\* a terminal state, or a terminal state is stored, the one pfm_initialize call
\* has returned.
C9_InitCompleteBeforeReturn ==
    (\/ returned # {}
     \/ current_state \in Terminal
     \/ \E t \in Threads : pc[t] = "L135" \/ expected_state[t] \in Terminal)
    => (pfm_started = 1 /\ Len(pfm_returns) = 1)

\* C9 witness: a caller that waited in the loop has returned
C9_Witness ==
    \E t \in Threads : pc[t] = "L135" /\ expected_state[t] = STATE_IN_PROGRESS

InitFailed == Len(pfm_returns) >= 1 /\ pfm_returns[1] # PFM_SUCCESS

\* C10: once pfm_initialize has failed it is never entered again, and every
\* perf_counter_open_by_name call returns the closed handle having called
\* neither the translator nor the perf_event_open syscall.
C10_FailFastAfterInitFailure ==
    InitFailed =>
        /\ pfm_started = 1
        /\ \A t \in Threads : pc[t] = "L135" => ensure_ret[t] = FALSE
        /\ last.op = "open_by_name" =>
              /\ h[last.t] = Closed
              /\ Count(last.trace, "pfm_get_os_event_encoding") = 0
              /\ Count(last.trace, "perf_event_open") = 0
              /\ Count(last.trace, "pfm_initialize") = Len(last.trace)
              /\ Len(last.trace) <= 1

\* C10 witness: after the failure, a call that did not initialise returned closed
C10_Witness ==
    /\ InitFailed
    /\ last.op = "open_by_name"
    /\ last.trace = <<>>
    /\ h[last.t] = Closed

\* ---- further properties of the open operations (checked under Spec) ----

\* the perf_counter_open_by_name call that just returned had its translation refused
TranslationFailed ==
    /\ last.op = "open_by_name"
    /\ Count(last.trace, "pfm_get_os_event_encoding") = 1
    /\ Select(last.trace, "pfm_get_os_event_encoding")[1].r # PFM_SUCCESS

\* C11: when the translator reports anything but success, perf_counter_open_by_name
\* returns the closed handle, the translator call being the last call it issues:
\* no perf_event_open, page-size query, mmap, munmap or close.
C11_TranslationFailure ==
    TranslationFailed =>
        /\ h[last.t] = Closed
        /\ last.trace[Len(last.trace)].call = "pfm_get_os_event_encoding"
        /\ Count(last.trace, "perf_event_open") = 0
        /\ Count(last.trace, "sysconf") = 0
        /\ Count(last.trace, "mmap") = 0
        /\ Count(last.trace, "munmap") = 0
        /\ Count(last.trace, "close") = 0

\* C11 witness: a call that initialised libpfm itself and then failed to translate
C11_Witness == TranslationFailed /\ Count(last.trace, "pfm_initialize") = 1

\* C12: the attribute perf_counter_open_by_id hands to the syscall has the type
\* and config it was called with, disabled, exclude_kernel and exclude_hv set,
\* and pinned set exactly when group_fd is -1; the syscall gets that group_fd.
C12_AttrById ==
    last.op = "open_by_id" =>
        /\ Count(last.trace, "perf_event_open") = 1
        /\ last.trace[1].call = "perf_event_open"
        /\ LET attr == last.trace[1].a[1]
               event_type == last.args[1]
               event_config == last.args[2]
               g == last.args[3]
           IN  /\ attr.type = event_type
               /\ attr.config = event_config
               /\ attr.disabled = 1
               /\ attr.exclude_kernel = 1
               /\ attr.exclude_hv = 1
               /\ (attr.pinned = 1) <=> (g = -1)
               /\ g # -1 => attr.pinned = 0
               /\ last.trace[1].a[2] = g

\* C12 witness: a counter was opened by id into the group of an open counter
C12_Witness ==
    /\ last.op = "open_by_id"
    /\ last.args[3] # -1
    /\ h[last.t].fd >= 0

\* ---- properties of group control (checked under SpecCtl) ----

\* the open counters in the group of the counter open at f
Group(f) == {x \in FDs : kfd[x] /\ kcnt[x].leader = kcnt[f].leader}

\* a perf_counter_enable / perf_counter_disable call just returned success
ControlSucceeded(name) == last.op = name /\ last.ret = 0

\* C13: enable and disable always carry PERF_IOC_FLAG_GROUP; in the state a
\* successful perf_counter_enable leaves, every counter of the handle's group
\* counts (the leader and the counters opened with its descriptor as group_fd),
\* and in the state a successful perf_counter_disable leaves, none does: the
\* group changes in the one step of the request.
C13_GroupControl ==
    /\ last.op \in {"enable", "disable"} =>
          /\ Count(last.trace, "ioctl") = 1
          /\ last.trace[1].a[3] = PERF_IOC_FLAG_GROUP
          /\ last.trace[1].a[2] = (IF last.op = "enable" THEN "ENABLE" ELSE "DISABLE")
    /\ ControlSucceeded("enable") => \A f \in Group(h[last.t].fd) : kcnt[f].on
    /\ ControlSucceeded("disable") => \A f \in Group(h[last.t].fd) : ~kcnt[f].on

\* C13 witness: enable on a leader A just succeeded while another handle B holds
\* a counter opened with A's descriptor as group_fd
C13_Witness ==
    /\ ControlSucceeded("enable")
    /\ kcnt[h[last.t].fd].leader = h[last.t].fd
    /\ \E u \in Threads \ {last.t} :
          /\ h[u].fd >= 0
          /\ kcnt[h[u].fd].leader = h[last.t].fd
          /\ kcnt[h[u].fd].on

\* C14: perf_counter_enable and perf_counter_disable issue exactly one ioctl, on
\* the handle's descriptor, return what it returned, and leave the handle as it
\* was, whether the request succeeded or failed.
C14_ControlPassThrough ==
    last.op \in {"enable", "disable"} =>
        /\ Len(last.trace) = 1
        /\ last.trace[1].call = "ioctl"
        /\ last.trace[1].a[1] = last.pre.fd
        /\ last.ret = last.trace[1].r
        /\ h[last.t] = last.pre

\* C14 witness: a disable request on an open counter failed and reported it
C14_Witness ==
    /\ last.op = "disable"
    /\ last.pre.fd >= 0
    /\ last.ret = -1

\* ---- properties of the one-time initialisation state ----

\* the lines between winning the compare-exchange and publishing the result
WinnerRegion == {"L120", "L120r", "L121"}

\* the lines of ensure_libpfm_initialized
EnsureLines == {"L106", "L118", "L120", "L120r", "L121", "L126", "L130"}

\* C15: current_state only moves UNINITIALIZED -> IN_PROGRESS -> SUCCESS or
\* FAILED.  The first move is made by a compare-exchange at line 118 while no
\* caller is between lines 120 and 121, and it is the only way to get there; the
\* second is made by the caller at line 121; a terminal state never changes.
\* (checked under SpecInit)
C15_StateTransitions ==
    [][/\ current_state \in Terminal => current_state' = current_state
       /\ current_state' # current_state =>
            \/ /\ current_state = STATE_UNINITIALIZED
               /\ current_state' = STATE_IN_PROGRESS
               /\ \E t \in Threads : pc[t] = "L118" /\ pc'[t] = "L120"
            \/ /\ current_state = STATE_IN_PROGRESS
               /\ current_state' \in Terminal
               /\ \E t \in Threads : pc[t] = "L121" /\ pc'[t] = "L135"
       /\ \A t \in Threads :
            (pc[t] \notin WinnerRegion /\ pc'[t] \in WinnerRegion) =>
                /\ current_state = STATE_UNINITIALIZED
                /\ current_state' = STATE_IN_PROGRESS
                /\ \A u \in Threads \ {t} : pc[u] \notin WinnerRegion
      ]_vars

\* C15 witness: with a terminal state stored, one caller enters
\* ensure_libpfm_initialized while another has just left the wait loop
C15_Witness ==
    /\ current_state \in Terminal
    /\ \E t, u \in Threads : pc[t] = "L106" /\ pc[u] = "L130"

\* C16: under a fair scheduler and a pfm_initialize that returns, every caller
\* inside ensure_libpfm_initialized eventually returns from it.
\* (checked under SpecInitFair)
C16_EnsureTerminates ==
    \A t \in Threads : (pc[t] \in EnsureLines) ~> (pc[t] = "L135")

\* C16 witness: a caller that saw IN_PROGRESS is in the wait loop after the
\* winner published a failure
C16_Witness ==
    /\ current_state = STATE_FAILED
    /\ \E t \in Threads : pc[t] = "L126" /\ expected_state[t] = STATE_IN_PROGRESS

\* C20 as stated: current_state is stored at most once.
C20_Original == Len(writes) <= 1

\* C20: current_state is stored exactly twice and only read afterwards:
\* STATE_IN_PROGRESS by the compare-exchange that wins (line 118), then the
\* terminal state by the store at line 121 of the same caller, the only one
\* between the two lines.  (checked under SpecInit)
C20_WrittenTwiceByWinner ==
    /\ [](/\ Len(writes) <= 2
          /\ Len(writes) >= 1 => writes[1] = STATE_IN_PROGRESS
          /\ Len(writes) = 2 => writes[2] \in Terminal
          /\ current_state = (IF writes = <<>> THEN STATE_UNINITIALIZED
                              ELSE writes[Len(writes)])
          /\ Cardinality({t \in Threads : pc[t] \in WinnerRegion})
                = (IF Len(writes) = 1 THEN 1 ELSE 0))
    /\ [][writes' # writes =>
            \E t \in Threads :
                \/ Len(writes) = 0 /\ pc[t] = "L118" /\ pc'[t] = "L120"
                \/ Len(writes) = 1 /\ pc[t] = "L121" /\ pc'[t] = "L135"
         ]_vars

\* C20 witness: after both stores a caller that only read the state has returned
\* from perf_counter_open_by_name
C20_Witness ==
    /\ Len(writes) = 2
    /\ last.op = "open_by_name"
    /\ Count(last.trace, "pfm_initialize") = 0

\* ---- properties of teardown and of the attribute by name (checked under Spec) ----

\* C17: closing a fully open handle when the page-size query fails issues the
\* query and one close of the descriptor and no munmap; the handle is left
\* closed, the descriptor is released, and the mapping stays in the kernel.
C17_CloseWithoutPageSize ==
    (ClosedOpenHandle /\ ~PageSizeKnown) =>
        /\ Count(last.trace, "munmap") = 0
        /\ last.trace = <<Select(last.trace, "sysconf")[1],
                          Call("close", <<last.pre.fd>>, 0)>>
        /\ h[last.t] = Closed
        /\ ~kfd[last.pre.fd]
        /\ kmap[last.pre.metadata_page] # NoMap

\* C17 witness: such a close returned, sysconf having reported 0
C17_Witness ==
    /\ ClosedOpenHandle
    /\ Count(last.trace, "sysconf") = 1
    /\ Select(last.trace, "sysconf")[1].r = 0
    /\ h[last.t] = Closed

\* C18: every munmap a perf_counter_close issues is for the mapping of the
\* handle being closed and passes the length the kernel holds for that mapping,
\* which is the length the mmap of the open call passed.
C18_UnmapLength ==
    [][last'.op = "close" =>
          \A i \in 1..Len(last'.trace) :
              last'.trace[i].call = "munmap" =>
                  /\ last'.trace[i].a[1] = h[last'.t].metadata_page
                  /\ h[last'.t].metadata_page \in Addrs
                  /\ last'.trace[i].a[2] = kmap[h[last'.t].metadata_page]
      ]_vars

\* C18 witness: a close that unmapped returned while another handle's mapping,
\* acquired by a different open call, is still held
C18_Witness ==
    /\ ClosedOpenHandle
    /\ Count(last.trace, "munmap") = 1
    /\ \E u \in Threads \ {last.t} : h[u].metadata_page # NULL

\* the translator call and the kernel open request of the open_by_name call
\* that just returned
Translated == Select(last.trace, "pfm_get_os_event_encoding")[1].a[1]
Requested == Select(last.trace, "perf_event_open")[1]

\* C19: when translation succeeds perf_counter_open_by_name makes one kernel
\* open request, with its group_fd argument and with the translator's output in
\* which disabled is 1 and pinned has been set to 1 if group_fd = -1 and left as
\* translated otherwise; exclude_kernel, exclude_hv, type and config are as
\* translated.
C19_AttrByName ==
    (/\ last.op = "open_by_name"
     /\ Count(last.trace, "pfm_get_os_event_encoding") = 1
     /\ Select(last.trace, "pfm_get_os_event_encoding")[1].r = PFM_SUCCESS) =>
        /\ Count(last.trace, "perf_event_open") = 1
        /\ Requested.a[2] = last.args[1]
        /\ Requested.a[1].disabled = 1
        /\ Requested.a[1].pinned = (IF last.args[1] = -1 THEN 1 ELSE Translated.pinned)
        /\ Requested.a[1].exclude_kernel = Translated.exclude_kernel
        /\ Requested.a[1].exclude_hv = Translated.exclude_hv
        /\ Requested.a[1].type = Translated.type
        /\ Requested.a[1].config = Translated.config

\* C19 witness: an open by name into a group, its translated attribute
\* excluding nothing, obtained a descriptor with the policy bits still clear
C19_Witness ==
    /\ last.op = "open_by_name"
    /\ Count(last.trace, "perf_event_open") = 1
    /\ Translated.exclude_kernel = 0
    /\ Requested.a[1].pinned = 0
    /\ Requested.a[2] # -1
    /\ Requested.r >= 0
====
